---- MODULE Spec2Model ----
(***************************************************************************)
(* Behavior-tree editor core (src/unnamed/part_000): the tree model, the   *)
(* subtree resolver, the id and status assigner, the model converter and   *)
(* the argument validator, as state machines over bounded inputs.          *)
(*                                                                         *)
(* JavaScript objects are records whose absent keys are absent from the    *)
(* record's DOMAIN (`undefined`); arrays are sequences.                    *)
(***************************************************************************)
EXTENDS Integers, Sequences, FiniteSets, TLC

VARIABLES
    files,         \* the project directory: path -> file on disk
    model,         \* the NodeModel handed to createTreeData
    tree,          \* the TreeGraphData being edited
    twin,          \* a second TreeGraphData, differing in one disabled child
    edit,          \* position of that disabled child (a sequence of child indexes)
    saved,         \* the NodeModel written by createFileData
    parsingStack,  \* module-level stack of subtree paths being resolved
    messages,      \* diagnostics emitted by the last operation
    trace,         \* nodes returned early by the last build, with the stack seen
    ret,           \* return value of the last operation
    check,         \* the (node, definition) pair handed to the validator
    phase          \* position in the open / refresh / save cycle

vars == <<files, model, tree, twin, edit, saved, parsingStack, messages, trace,
          ret, check, phase>>

-----------------------------------------------------------------------------
(* Bounds of the model.                                                     *)

MaxNodes == 3
MaxIdNodes == 4
MaxTwinNodes == 3
MaxSubNodes == 2
MaxModelNodes == 3
MaxFileNodes == 2
MaxRoundNodes == 2
MaxArrayLen == 2
MaxDataNodes == 3
MaxBuildNodes == 2

-----------------------------------------------------------------------------
(* JavaScript object helpers.                                               *)

Has(r, k) == k \in DOMAIN r

Set(r, k, v) == [x \in DOMAIN r \cup {k} |-> IF x = k THEN v ELSE r[x]]

Del(r, k) == [x \in DOMAIN r \ {k} |-> r[x]]

\* `r.k` used as a condition: undefined is falsy.
Truthy(r, k) == Has(r, k) /\ r[k] = TRUE

Null == [null |-> TRUE]

-----------------------------------------------------------------------------
(* Node definition registry (workspace.getNodeDef): a fixed set of schemas. *)
(* Type and slot descriptors are strings, written as character sequences.   *)

unknownNodeDef == [name |-> "unknown"]

NodeDefs ==
    [n \in {"Sequence", "Log", "Wait", "AlwaysFail", "AllSuccess", "AllFailure",
            "AnySuccess", "Check"} |->
        CASE n = "Sequence"   -> [name |-> n, children |-> -1]
          [] n = "Log"        -> [name |-> n, status |-> <<"success">>,
                                  args |-> <<[name |-> "str",
                                              type |-> <<"s", "t", "r", "i", "n", "g">>]>>]
          [] n = "Wait"       -> [name |-> n, status |-> <<"success", "running">>,
                                  args |-> <<[name |-> "time", type |-> <<"i", "n", "t">>]>>]
          [] n = "AlwaysFail" -> [name |-> n, status |-> <<"failure">>]
          [] n = "AllSuccess" -> [name |-> n, children |-> -1,
                                  status |-> <<"&success", "|failure", "|running">>]
          [] n = "AllFailure" -> [name |-> n, children |-> -1,
                                  status |-> <<"&failure", "|success", "|running">>]
          [] n = "AnySuccess" -> [name |-> n, children |-> -1,
                                  status |-> <<"&success", "|success">>]
          [] n = "Check"      -> [name |-> n, status |-> <<"success", "failure">>,
                                  args |-> <<[name |-> "value",
                                              type |-> <<"s", "t", "r", "i", "n", "g", "?">>]>>,
                                  input |-> <<<<"t", "g", "t">>>>,
                                  output |-> <<<<"r", "e", "s">>>>]]

getNodeDef(name) == IF name \in DOMAIN NodeDefs THEN NodeDefs[name] ELSE unknownNodeDef

-----------------------------------------------------------------------------
(* Status bitmask.                                                          *)

SUCCESS == 2
FAILURE == 1
RUNNING == 0
SUCCESS_ZERO == 5
FAILURE_ZERO == 4
StatusBits == 6

Shl(b, k) == b * 2^k

BitAt(x, k) == (x \div 2^k) % 2

BitOr(a, b) ==
    LET F[k \in 0..StatusBits] ==
            IF k = StatusBits THEN 0
            ELSE (IF BitAt(a, k) = 1 \/ BitAt(b, k) = 1 THEN 2^k ELSE 0) + F[k + 1]
    IN  F[0]

\* status &= ~(1 << k)
BitClear(a, k) == a - Shl(BitAt(a, k), k)

toStatusFlag(data) ==
    LET s == IF Has(data.def, "status") THEN data.def.status ELSE <<>>
        F[i \in 0..Len(s)] ==
            IF i = 0 THEN 0
            ELSE CASE s[i] = "success" -> BitOr(F[i - 1], Shl(1, SUCCESS))
                   [] s[i] = "failure" -> BitOr(F[i - 1], Shl(1, FAILURE))
                   [] s[i] = "running" -> BitOr(F[i - 1], Shl(1, RUNNING))
                   [] OTHER -> F[i - 1]
    IN  F[Len(s)]

\* As appendStatusFlag, without the two tracking bits.
appendStatusFlagUntracked(status, childStatus) == BitOr(status, childStatus)

appendStatusFlag(status, childStatus) ==
    LET childSuccess == BitAt(childStatus, SUCCESS)
        childFailure == BitAt(childStatus, FAILURE)
        s1 == IF childSuccess = 0 THEN BitOr(status, Shl(1, SUCCESS_ZERO)) ELSE status
        s2 == IF childFailure = 0 THEN BitOr(s1, Shl(1, FAILURE_ZERO)) ELSE s1
    IN  BitOr(s2, childStatus)

\* The new value of data.status.
buildStatusFlag(data, childStatus) ==
    LET s == IF Has(data.def, "status") THEN data.def.status ELSE <<>>
        childSuccess == BitAt(childStatus, SUCCESS)
        childFailure == BitAt(childStatus, FAILURE)
        childRunning == BitAt(childStatus, RUNNING)
        childHasZeroSuccess == BitAt(childStatus, SUCCESS_ZERO)
        childHasZeroFailure == BitAt(childStatus, FAILURE_ZERO)
        F[i \in 0..Len(s)] ==
            IF i = 0 THEN data.status
            ELSE LET status == F[i - 1] IN
                 CASE s[i] = "!success" -> BitOr(status, Shl(childFailure, SUCCESS))
                   [] s[i] = "!failure" -> BitOr(status, Shl(childSuccess, FAILURE))
                   [] s[i] = "|success" -> BitOr(status, Shl(childSuccess, SUCCESS))
                   [] s[i] = "|failure" -> BitOr(status, Shl(childFailure, FAILURE))
                   [] s[i] = "|running" -> BitOr(status, Shl(childRunning, RUNNING))
                   [] s[i] = "&success" ->
                        IF childHasZeroSuccess = 1 THEN BitClear(status, SUCCESS)
                        ELSE BitOr(status, Shl(childSuccess, SUCCESS))
                   [] s[i] = "&failure" ->
                        IF childHasZeroFailure = 1 THEN BitClear(status, FAILURE)
                        ELSE BitOr(status, Shl(childFailure, FAILURE))
                   [] OTHER -> status
    IN  IF Len(s) > 0 THEN F[Len(s)] ELSE BitOr(data.status, childStatus)

\* The guard `child.status && !child.disabled` of the forEach callback.
ContributesNoDisabledTest(child) == child.status # 0

Contributes(child) == child.status # 0 /\ ~Truthy(child, "disabled")

RECURSIVE refreshTreeDataId(_, _)
RECURSIVE RefreshChildren(_, _, _, _, _)

\* As RefreshChildren, but the id returned by the child's call is dropped:
\* every child restarts from the id its parent passed on.
RefreshChildrenStaleId(children, i, parentId, id, childStatus) ==
    IF i > Len(children)
    THEN [children |-> <<>>, id |-> id, childStatus |-> childStatus]
    ELSE LET r == refreshTreeDataId(Set(children[i], "parent", parentId), id)
             cs == IF Contributes(r.data) THEN appendStatusFlag(childStatus, r.data.status)
                   ELSE childStatus
             rest == RefreshChildren(children, i + 1, parentId, id + 1, cs)
         IN  [children |-> <<r.data>> \o rest.children, id |-> rest.id,
              childStatus |-> rest.childStatus]

\* data.children.forEach: children i..Len, the running id and childStatus;
\* yields the refreshed children, the next id and the aggregated childStatus.
RefreshChildren(children, i, parentId, id, childStatus) ==
    IF i > Len(children)
    THEN [children |-> <<>>, id |-> id, childStatus |-> childStatus]
    ELSE LET r == refreshTreeDataId(Set(children[i], "parent", parentId), id)
             cs == IF Contributes(r.data) THEN appendStatusFlag(childStatus, r.data.status)
                   ELSE childStatus
             rest == RefreshChildren(children, i + 1, parentId, r.id, cs)
         IN  [children |-> <<r.data>> \o rest.children, id |-> rest.id,
              childStatus |-> rest.childStatus]

\* refreshTreeDataId(data, id): id 0 stands for an omitted (undefined) id.
refreshTreeDataId(data, id0) ==
    LET id == IF id0 = 0 THEN 1 ELSE id0
        status == toStatusFlag(data)
        d1 == Set(Set(data, "id", ToString(id)), "status", status)
    IN  IF Has(data, "children")
        THEN LET k == RefreshChildren(data.children, 1, d1.id, id + 1, 0)
                 d2 == Set(d1, "children", k.children)
             IN  [data |-> Set(d2, "status", buildStatusFlag(d2, k.childStatus)),
                  id |-> k.id]
        ELSE [data |-> d1, id |-> id + 1]

-----------------------------------------------------------------------------
(* Tree navigation.                                                         *)

Kids(n) == IF Has(n, "children") THEN n.children ELSE <<>>

RECURSIVE Positions(_)
Positions(n) ==
    {<<>>} \cup UNION {{<<i>> \o p : p \in Positions(Kids(n)[i])} : i \in 1..Len(Kids(n))}

RECURSIVE NodeAt(_, _)
NodeAt(n, p) == IF p = <<>> THEN n ELSE NodeAt(n.children[Head(p)], Tail(p))

RECURSIVE ReplaceAt(_, _, _)
ReplaceAt(n, p, sub) ==
    IF p = <<>> THEN sub
    ELSE [n EXCEPT !.children[Head(p)] = ReplaceAt(n.children[Head(p)], Tail(p), sub)]

RECURSIVE Size(_)
RECURSIVE SizeAll(_, _)
SizeAll(s, i) == IF i > Len(s) THEN 0 ELSE Size(s[i]) + SizeAll(s, i + 1)
Size(n) == 1 + SizeAll(Kids(n), 1)

IsPrefix(p, q) == Len(p) <= Len(q) /\ SubSeq(q, 1, Len(p)) = p

\* Depth-first, parent-before-children order of two positions.
RECURSIVE PreBefore(_, _)
PreBefore(p, q) ==
    /\ p # q
    /\ \/ p = <<>>
       \/ q # <<>> /\ (Head(p) < Head(q) \/ (Head(p) = Head(q) /\ PreBefore(Tail(p), Tail(q))))

IdNum(s) == CHOOSE n \in 0..(2 * (MaxIdNodes + MaxNodes) + 8) : ToString(n) = s

-----------------------------------------------------------------------------
(* Bounded sets of graph trees, as createTreeData leaves them: def bound,   *)
(* ids not yet refreshed.                                                   *)

GraphNode(name, disabled) ==
    LET base == [id |-> "0", name |-> name, def |-> getNodeDef(name)]
    IN  IF disabled THEN Set(base, "disabled", TRUE) ELSE base

RECURSIVE TreesOf(_, _, _)
RECURSIVE ForestsOf(_, _, _)

\* sequences of trees with n nodes in total
ForestsOf(n, names, flags) ==
    IF n = 0 THEN {<<>>}
    ELSE UNION {{<<t>> \o f : t \in TreesOf(k, names, flags),
                              f \in ForestsOf(n - k, names, flags)} : k \in 1..n}

\* trees with exactly n nodes
TreesOf(n, names, flags) ==
    UNION {{IF f = <<>> THEN GraphNode(nm, d) ELSE Set(GraphNode(nm, d), "children", f) :
                nm \in names, d \in flags} : f \in ForestsOf(n - 1, names, flags)}

TreesUpTo(n, names, flags) == UNION {TreesOf(k, names, flags) : k \in 1..n}

\* "Foo" is not in the registry: a node of unknown type.
StatusNames ==
    {"Sequence", "Log", "Wait", "AlwaysFail", "AllSuccess", "AllFailure", "AnySuccess", "Foo"}

-----------------------------------------------------------------------------
(* The id and status assigner, on one tree.                                 *)

Idle ==
    /\ files = <<>>
    /\ model = Null
    /\ saved = Null
    /\ parsingStack = <<>>
    /\ messages = <<>>
    /\ trace = <<>>
    /\ check = Null

InitStatus ==
    /\ Idle
    /\ tree \in TreesUpTo(MaxNodes, StatusNames, BOOLEAN)
    /\ twin = tree
    /\ edit = <<>>
    /\ ret = 0
    /\ phase = "built"

RefreshTreeDataId ==
    /\ phase = "built"
    /\ tree' = refreshTreeDataId(tree, 0).data
    /\ twin' = IF twin = Null THEN Null ELSE refreshTreeDataId(twin, 0).data
    /\ ret' = refreshTreeDataId(tree, 0).id
    /\ phase' = "refreshed"
    /\ UNCHANGED <<files, model, edit, saved, parsingStack, messages, trace, check>>

NextStatus == RefreshTreeDataId

SpecStatus == InitStatus /\ [][NextStatus]_vars

\* Trees of plain nodes, one node larger: the numbering does not read the labels.
IdNames == {"Sequence", "Log"}

InitId ==
    /\ Idle
    /\ tree \in TreesUpTo(MaxIdNodes, IdNames, {FALSE})
    /\ twin = tree
    /\ edit = <<>>
    /\ ret = 0
    /\ phase = "built"

NextId == RefreshTreeDataId

SpecId == InitId /\ [][NextId]_vars

\* Two trees that differ only in the content of one disabled child.
TwinNames == {"Sequence", "Log", "AlwaysFail", "AllSuccess"}

InitTwin ==
    /\ Idle
    /\ \E t \in TreesUpTo(MaxTwinNodes, TwinNames, {FALSE}) :
         \E p \in Positions(t) \ {<<>>} :
           \E sub \in TreesUpTo(MaxSubNodes, TwinNames, {FALSE}) :
              /\ tree = ReplaceAt(t, p, Set(NodeAt(t, p), "disabled", TRUE))
              /\ twin = ReplaceAt(t, p, Set(sub, "disabled", TRUE))
              /\ edit = p
    /\ ret = 0
    /\ phase = "built"

NextTwin == RefreshTreeDataId

SpecTwin == InitTwin /\ [][NextTwin]_vars

-----------------------------------------------------------------------------
(* The subtree resolver and the model converter.  The layout field `size`   *)
(* (calcTreeDataSize, a text measurement) is left out of TreeGraphData.     *)

Paths == {"a.json", "b.json"}

\* More nested calls than any resolution over Paths can need: the depth of
\* the model plus, for every path on the stack, the depth of its file.
DepthLimit == MaxModelNodes + MaxRoundNodes + Cardinality(Paths) * MaxFileNodes + 1

InSeq(x, s) == \E i \in 1..Len(s) : s[i] = x

\* Copy of the keys of `node` that are present (an absent key stays absent).
Pick(node, keys) == [k \in DOMAIN node \cap keys |-> node[k]]

\* treeData.k = node.k
Assign(data, k, node) == IF Has(node, k) THEN Set(data, k, node[k]) ELSE Del(data, k)

\* As NewTreeData, with `output` left out of the literal.
NewTreeDataNoOutput(node, parent) ==
    LET own == Pick(node, {"name", "desc", "args", "input", "debug", "disabled"})
        d == Set(Set(own, "id", ToString(node.id)), "def", getNodeDef(node.name))
    IN  IF parent = "" THEN d ELSE Set(d, "parent", parent)

\* The object literal createTreeData starts from; parent "" is an omitted parent.
NewTreeData(node, parent) ==
    LET own == Pick(node, {"name", "desc", "args", "input", "output", "debug", "disabled"})
        d == Set(Set(own, "id", ToString(node.id)), "def", getNodeDef(node.name))
    IN  IF parent = "" THEN d ELSE Set(d, "parent", parent)

\* As Pop, but leaving the path on the stack.
PopNothing(s) == s

\* parsingStack.pop()
Pop(s) == SubSeq(s, 1, Len(s) - 1)

Emit(st, kind, path) == [st EXCEPT !.msgs = Append(@, [kind |-> kind, path |-> path])]

RECURSIVE createTreeData(_, _, _, _)
RECURSIVE BuildChildren(_, _, _, _, _)

\* node.children.forEach((child) => treeData.children.push(createTreeData(child, id)))
BuildChildren(children, i, parentId, st, depth) ==
    IF i > Len(children) THEN [children |-> <<>>, st |-> st]
    ELSE LET r == createTreeData(children[i], parentId, st, depth)
             rest == BuildChildren(children, i + 1, parentId, r.st, depth)
         IN  [children |-> <<r.data>> \o rest.children, st |-> rest.st]

\* The `else if (node.path)` branch once the path is known not to be on the stack.
ResolveSubtree(node, parent, treeData, st, depth) ==
    LET pushed == [st EXCEPT !.stack = Append(@, node.path)]
        f == files[node.path]
    IN  IF f.kind \in {"missing", "corrupt"}
        THEN \* readFileSync or JSON.parse throws: treeData is still the literal
             LET e == Emit(pushed, "failed", node.path)
             IN  [data |-> treeData,
                  st |-> [e EXCEPT !.stack = Pop(@),
                                   !.trace = Append(@, [kind |-> "failed", ref |-> node,
                                                        data |-> treeData])]]
        ELSE LET r == createTreeData(f.root, treeData.id, pushed, depth + 1)
             IN  IF f.kind = "unstatable"
                 THEN \* statSync throws after treeData was reassigned
                      LET e == Emit(r.st, "failed", node.path)
                      IN  [data |-> r.data,
                           st |-> [e EXCEPT !.stack = Pop(@),
                                            !.trace = Append(@, [kind |-> "failed",
                                                                 ref |-> node,
                                                                 data |-> r.data])]]
                 ELSE LET d1 == Set(r.data, "lastModified", f.mtime)
                          d2 == Set(d1, "path", node.path)
                          d3 == Assign(d2, "debug", node)
                          d4 == Assign(d3, "disabled", node)
                          d5 == IF parent = "" THEN Del(d4, "parent")
                                ELSE Set(d4, "parent", parent)
                          d6 == Set(d5, "id", ToString(node.id))
                      IN  [data |-> d6, st |-> [r.st EXCEPT !.stack = Pop(@)]]

\* As CircularReference, but answering that no path is ever on the stack.
CircularReferenceNever(node, stack) == FALSE

\* parsingStack.indexOf(node.path) >= 0
CircularReference(node, stack) == InSeq(node.path, stack)

\* createTreeData(node, parent) with the module-level parsingStack, the
\* diagnostics and the early returns threaded through `st`.  `depth` counts
\* the nested calls; passing DepthLimit is recorded in st.overflow.
createTreeData(node, parent, st0, depth) ==
    LET treeData == NewTreeData(node, parent)
        st == IF parent = "" THEN [st0 EXCEPT !.stack = <<>>] ELSE st0
    IN  IF depth > DepthLimit
        THEN [data |-> treeData, st |-> [st EXCEPT !.overflow = TRUE]]
        ELSE IF Has(node, "children")
        THEN LET k == BuildChildren(node.children, 1, treeData.id, st, depth + 1)
             IN  [data |-> Set(treeData, "children", k.children), st |-> k.st]
        ELSE IF Has(node, "path") /\ node.path # ""
        THEN IF CircularReference(node, st.stack)
             THEN LET d == Set(treeData, "path", node.path)
                      e == Emit(st, "circular", node.path)
                  IN  [data |-> d,
                       st |-> [e EXCEPT !.trace = Append(@, [kind |-> "circular",
                                                             ref |-> node, data |-> d,
                                                             stack |-> st.stack])]]
             ELSE ResolveSubtree(node, parent, treeData, st, depth)
        ELSE [data |-> treeData, st |-> st]

\* As isSubtreeRoot, without the test of the id.
isSubtreeRootAnyId(data) == Has(data, "path") /\ data.path # ""

\* data.path && data.id.toString() !== "1"
isSubtreeRoot(data) == Has(data, "path") /\ data.path # "" /\ data.id # "1"

\* `data.k || undefined` keeps k: a non-empty string, true, or any object / array.
OrUndefined(data, k) ==
    /\ Has(data, k)
    /\ k \in {"desc", "path"} => data[k] # ""
    /\ k \in {"debug", "disabled"} => data[k] = TRUE

DeclaresSome(conf, k) == Has(conf, k) /\ Len(conf[k]) > 0

RECURSIVE createFileData(_, _)
RECURSIVE FileChildren(_, _, _)

FileChildren(children, i, includeSubtree) ==
    IF i > Len(children) THEN <<>>
    ELSE <<createFileData(children[i], includeSubtree)>>
             \o FileChildren(children, i + 1, includeSubtree)

createFileData(data, includeSubtree) ==
    LET conf == getNodeDef(data.name)
        kept == {k \in {"desc", "args", "input", "output", "debug", "disabled", "path"} :
                    OrUndefined(data, k)}
                \ ((IF DeclaresSome(conf, "input") THEN {} ELSE {"input"})
                    \cup (IF DeclaresSome(conf, "output") THEN {} ELSE {"output"})
                    \cup (IF DeclaresSome(conf, "args") THEN {} ELSE {"args"}))
        nodeData == Set(Set(Pick(data, kept), "id", IdNum(data.id)), "name", data.name)
    IN  IF Has(data, "children") /\ Len(data.children) > 0
           /\ (includeSubtree \/ ~isSubtreeRoot(data))
        THEN Set(nodeData, "children", FileChildren(data.children, 1, includeSubtree))
        ELSE nodeData

-----------------------------------------------------------------------------
(* Bounded NodeModels and project directories.                              *)

RECURSIVE ModelsOf(_, _, _)
RECURSIVE ModelForests(_, _, _)

ModelForests(n, inner, leaf) ==
    IF n = 0 THEN {<<>>}
    ELSE UNION {{<<t>> \o f : t \in ModelsOf(k, inner, leaf),
                              f \in ModelForests(n - k, inner, leaf)} : k \in 1..n}

\* NodeModels of exactly n nodes, without ids
ModelsOf(n, inner, leaf) ==
    IF n = 1 THEN leaf
    ELSE {Set(l, "children", f) : l \in inner, f \in ModelForests(n - 1, inner, leaf)}

RECURSIVE Number(_, _)
RECURSIVE NumberAll(_, _, _)

NumberAll(children, i, id) ==
    IF i > Len(children) THEN [children |-> <<>>, id |-> id]
    ELSE LET r == Number(children[i], id)
             rest == NumberAll(children, i + 1, r.id)
         IN  [children |-> <<r.node>> \o rest.children, id |-> rest.id]

\* ids as a saved file carries them: 1, 2, ... in depth-first order
Number(node, id) ==
    IF Has(node, "children")
    THEN LET k == NumberAll(node.children, 1, id + 1)
         IN  [node |-> Set(Set(node, "id", id), "children", k.children), id |-> k.id]
    ELSE [node |-> Set(node, "id", id), id |-> id + 1]

ModelsUpTo(n, inner, leaf) ==
    {Number(m, 1).node : m \in UNION {ModelsOf(k, inner, leaf) : k \in 1..n}}

FilesOver(roots) ==
    [Paths -> {[kind |-> "missing"], [kind |-> "corrupt", mtime |-> 7]}
              \cup {[kind |-> k, root |-> r, mtime |-> 7] :
                        k \in {"tree", "unstatable"}, r \in roots}]

Refs(name, extras) == {Set(e, "path", p) : p \in Paths, e \in {Set(x, "name", name) : x \in extras}}

\* Subtree files: small trees that may refer to each other and to themselves.
FileRoots ==
    ModelsUpTo(MaxFileNodes, {[name |-> "AllSuccess"]},
               {[name |-> "Log", args |-> [str |-> "hello"]]}
                   \cup Refs("AllSuccess", {<<>>}))

\* Trees to open: plain nodes and references, some flagged debug / disabled.
ResolveModels ==
    ModelsUpTo(MaxModelNodes, {[name |-> "Sequence"]},
               {[name |-> "Wait"]}
                   \cup Refs("Sequence", {<<>>, [debug |-> TRUE, disabled |-> TRUE]}))

NoBuild == [stack |-> <<>>, msgs |-> <<>>, trace |-> <<>>, overflow |-> FALSE]

InitResolve ==
    /\ files \in FilesOver(FileRoots)
    /\ model \in ResolveModels
    /\ tree = Null
    /\ twin = Null
    /\ edit = <<>>
    /\ saved = Null
    /\ parsingStack = <<>>
    /\ messages = <<>>
    /\ trace = <<>>
    /\ ret = 0
    /\ check = Null
    /\ phase = "idle"

\* Opening a tree: createTreeData(model) with no parent.
CreateTreeData ==
    /\ phase = "idle"
    /\ LET r == createTreeData(model, "", [NoBuild EXCEPT !.stack = parsingStack], 1)
       IN  /\ tree' = r.data
           /\ parsingStack' = r.st.stack
           /\ messages' = r.st.msgs
           /\ trace' = r.st.trace
           /\ ret' = r.st.overflow
    /\ phase' = "built"
    /\ UNCHANGED <<files, model, twin, edit, saved, check>>

\* Saving: createFileData(tree, includeSubtree); ret records includeSubtree.
CreateFileData ==
    /\ phase \in {"built", "refreshed"}
    /\ \E includeSubtree \in BOOLEAN :
          /\ saved' = createFileData(tree, includeSubtree)
          /\ ret' = includeSubtree
    /\ phase' = "saved"
    /\ UNCHANGED <<files, model, tree, twin, edit, parsingStack, messages, trace, check>>

NextResolve == CreateTreeData \/ RefreshTreeDataId \/ CreateFileData

SpecResolve == InitResolve /\ [][NextResolve]_vars

\* NodeModels with every optional field, on schemas that do and do not
\* declare args / input / output; few files.
Extras ==
    {<<>>,
     [desc |-> "", debug |-> FALSE, disabled |-> FALSE],
     [desc |-> "d", debug |-> TRUE, disabled |-> TRUE],
     [args |-> [value |-> "v"], input |-> <<"t">>, output |-> <<"r">>],
     [args |-> <<>>, input |-> <<>>, output |-> <<>>]}

RoundLabels == {Set(x, "name", n) : x \in Extras, n \in {"Sequence", "Check"}}

RoundModels ==
    ModelsUpTo(MaxRoundNodes, RoundLabels,
               RoundLabels
                   \cup {[name |-> n, children |-> <<>>] : n \in {"Sequence", "Check"}}
                   \cup Refs("Log", {<<>>}))

RoundFiles == FilesOver({Number([name |-> "Log", args |-> [str |-> "hello"]], 1).node})

InitRound ==
    /\ files \in RoundFiles
    /\ model \in RoundModels
    /\ tree = Null
    /\ twin = Null
    /\ edit = <<>>
    /\ saved = Null
    /\ parsingStack = <<>>
    /\ messages = <<>>
    /\ trace = <<>>
    /\ ret = 0
    /\ check = Null
    /\ phase = "idle"

NextRound == CreateTreeData \/ RefreshTreeDataId \/ CreateFileData

SpecRound == InitRound /\ [][NextRound]_vars

-----------------------------------------------------------------------------
(* Several builds in a row over unchanged files: the module-level           *)
(* parsingStack is whatever the previous build left.                        *)

BuildModels ==
    ModelsUpTo(MaxBuildNodes, {[name |-> "Sequence"]},
               {[name |-> "Wait"]} \cup Refs("Sequence", {<<>>}))

InitBuilds ==
    /\ files \in FilesOver(FileRoots)
    /\ model \in BuildModels
    /\ tree = Null
    /\ twin = Null
    /\ edit = <<>>
    /\ saved = Null
    /\ parsingStack = <<>>
    /\ messages = <<>>
    /\ trace = <<>>
    /\ ret = 0
    /\ check = Null
    /\ phase = "idle"

\* Another tree is chosen to be built; twin keeps the graph of the build
\* before, and nothing resets the stack between the two calls.
NextTree ==
    /\ phase = "built"
    /\ model' \in BuildModels
    /\ twin' = tree
    /\ phase' = "idle"
    /\ UNCHANGED <<files, tree, edit, saved, parsingStack, messages, trace, ret, check>>

NextBuilds == CreateTreeData \/ NextTree

SpecBuilds == InitBuilds /\ [][NextBuilds]_vars

-----------------------------------------------------------------------------
(* The argument validator.  A JavaScript value is a tagged record; a number *)
(* is counted in halves, so that 1.5 is a value and Math.floor is defined.  *)

Undef == [t |-> "undefined"]
NullV == [t |-> "null"]
Str(x) == [t |-> "string", str |-> x]
Num(h) == [t |-> "number", halves |-> h]
Bool(b) == [t |-> "boolean", bool |-> b]
Arr(x) == [t |-> "array", elems |-> x]

\* data.args?.[name]
ArgOf(data, name) ==
    IF Has(data, "args") /\ Has(data.args, name) THEN data.args[name] ELSE Undef

\* data.input?.[idx], idx counted from 0; -1 is findIndex's "not found"
InputAt(data, idx) ==
    IF Has(data, "input") /\ idx >= 0 /\ idx < Len(data.input) THEN data.input[idx + 1]
    ELSE Undef

WordChars ==
    {"a", "b", "c", "d", "e", "f", "g", "h", "i", "j", "k", "l", "m", "n", "o", "p", "q",
     "r", "s", "t", "u", "v", "w", "x", "y", "z", "_"}

\* str.startsWith(prefix)
StartsWith(str, prefix) ==
    Len(prefix) <= Len(str) /\ SubSeq(str, 1, Len(prefix)) = prefix

\* str.includes(sub)
Includes(str, sub) ==
    \E i \in 0..(Len(str) - Len(sub)) : SubSeq(str, i + 1, i + Len(sub)) = sub

\* arg.type.match(/^\w+/)[0]
getNodeArgRawType(arg) ==
    LET n == CHOOSE k \in 0..Len(arg.type) :
                 /\ \A j \in 1..k : arg.type[j] \in WordChars
                 /\ k < Len(arg.type) => arg.type[k + 1] \notin WordChars
    IN  SubSeq(arg.type, 1, n)

isNodeArgArray(arg) == Includes(arg.type, <<"[", "]">>)

isNodeArgOptional(arg) == Includes(arg.type, <<"?">>)

isFloatType(type) == type = <<"f", "l", "o", "a", "t">>
isIntType(type) == type = <<"i", "n", "t">>
isStringType(type) == type = <<"s", "t", "r", "i", "n", "g">>
isEnumType(type) == type = <<"e", "n", "u", "m">>
isExprType(type) == type = <<"e", "x", "p", "r">>
isJsonType(type) == type = <<"j", "s", "o", "n">>
isBoolType(type) == type = <<"b", "o", "o", "l">>

\* [ok, errs]: the returned boolean and the number of error() calls.
Verdict(ok, verbose) == [ok |-> ok, errs |-> IF ~ok /\ verbose THEN 1 ELSE 0]

checkNodeArgValue(data, arg, value, verbose) ==
    LET type == getNodeArgRawType(arg)
        optional == isNodeArgOptional(arg)
    IN  IF isFloatType(type)
        THEN Verdict(value.t = "number" \/ (value = Undef /\ optional), verbose)
        ELSE IF isIntType(type)
        THEN Verdict((value.t = "number" /\ value.halves % 2 = 0)
                         \/ (value = Undef /\ optional), verbose)
        ELSE IF isStringType(type)
        THEN Verdict((value.t = "string" /\ value.str # "")
                         \/ ((value = Undef \/ value = Str("")) /\ optional), verbose)
        ELSE IF isEnumType(type)
        THEN Verdict((Has(arg, "options")
                          /\ \E i \in 1..Len(arg.options) : arg.options[i].value = value)
                         \/ (value = Undef /\ optional), verbose)
        ELSE IF isExprType(type)
        THEN Verdict((value.t = "string" /\ value.str # "")
                         \/ ((value = Undef \/ value = Str("")) /\ optional), verbose)
        ELSE IF isJsonType(type)
        THEN Verdict((value # Undef /\ value # Str("")) \/ optional, verbose)
        ELSE IF isBoolType(type)
        THEN Verdict(value.t = "boolean" \/ value = Undef, verbose)
        ELSE \* error(data, "unknown arg type") without hasError = true
             [ok |-> TRUE, errs |-> 1]

\* As checkOneof, but satisfied as soon as either side is supplied.
checkOneofEither(argValue, inputValue) ==
    LET a == IF argValue = Undef THEN Str("") ELSE argValue
        i == IF inputValue \in {Undef, NullV} THEN Str("") ELSE inputValue
    IN  a # Str("") \/ i # Str("")

checkOneof(argValue, inputValue) ==
    LET a == IF argValue = Undef THEN Str("") ELSE argValue
        i == IF inputValue \in {Undef, NullV} THEN Str("") ELSE inputValue
    IN  (a # Str("") /\ i = Str("")) \/ (a = Str("") /\ i # Str(""))

\* conf.input?.findIndex((v) => v.startsWith(tag)) ?? -1, counted from 0
FindInput(conf, tag) ==
    IF ~Has(conf, "input") THEN -1
    ELSE LET hits == {k \in 1..Len(conf.input) : StartsWith(conf.input[k], tag)}
         IN  IF hits = {} THEN -1
             ELSE (CHOOSE k \in hits : \A j \in hits : k <= j) - 1

RECURSIVE CheckElements(_, _, _, _, _)
CheckElements(data, arg, elems, j, verbose) ==
    IF j > Len(elems) THEN [ok |-> TRUE, errs |-> 0]
    ELSE LET one == checkNodeArgValue(data, arg, elems[j], verbose)
             rest == CheckElements(data, arg, elems, j + 1, verbose)
         IN  [ok |-> one.ok /\ rest.ok, errs |-> one.errs + rest.errs]

\* checkNodeArg(data, conf, i, verbose), i counted from 1
checkNodeArg(data, conf, i, verbose) ==
    LET arg == conf.args[i]
        value == ArgOf(data, arg.name)
        typed ==
            IF isNodeArgArray(arg)
            THEN IF value.t # "array" \/ (~isNodeArgOptional(arg) /\ Len(value.elems) = 0)
                 THEN Verdict(FALSE, verbose)
                 ELSE CheckElements(data, arg, value.elems, 1, verbose)
            ELSE checkNodeArgValue(data, arg, value, verbose)
        oneof ==
            IF Has(arg, "oneof")
            THEN Verdict(checkOneof(ArgOf(data, arg.name),
                                    InputAt(data, FindInput(conf, arg.oneof))), verbose)
            ELSE [ok |-> TRUE, errs |-> 0]
    IN  [ok |-> typed.ok /\ oneof.ok, errs |-> typed.errs + oneof.errs]

-----------------------------------------------------------------------------
(* One argument of one node, checked against its declaration.               *)

Scalars == {Str(""), Str("a"), Num(2), Num(3), Bool(TRUE), NullV}

RECURSIVE SeqsUpTo(_, _)
SeqsUpTo(S, n) ==
    IF n = 0 THEN {<<>>}
    ELSE SeqsUpTo(S, n - 1) \cup {Append(q, x) : q \in {r \in SeqsUpTo(S, n - 1) : Len(r) = n - 1},
                                                   x \in S}

Values == Scalars \cup {Arr(q) : q \in SeqsUpTo(Scalars, MaxArrayLen)}

Kinds ==
    {<<"f", "l", "o", "a", "t">>, <<"i", "n", "t">>, <<"s", "t", "r", "i", "n", "g">>,
     <<"e", "n", "u", "m">>, <<"e", "x", "p", "r">>, <<"j", "s", "o", "n">>,
     <<"b", "o", "o", "l">>, <<"v", "e", "c">>}

ArgTypes ==
    {k \o a \o o : k \in Kinds, a \in {<<>>, <<"[", "]">>}, o \in {<<>>, <<"?">>}}

Tag == <<"t", "g", "t">>

ArgDecls ==
    LET plain == {[name |-> "x", type |-> ty,
                   options |-> <<[name |-> "A", value |-> Str("a")],
                                 [name |-> "Two", value |-> Num(4)]>>] : ty \in ArgTypes}
    IN  plain \cup {Set(a, "oneof", Tag) : a \in plain}

CheckConfs ==
    {[name |-> "Check", args |-> <<a>>] : a \in ArgDecls}
        \cup {[name |-> "Check", args |-> <<a>>, input |-> inp] :
                  a \in ArgDecls,
                  inp \in {<<Tag>>, <<<<"s", "r", "c">>, Tag \o <<"?">>>>}}

CheckNodes ==
    LET inputs == {<<>>, <<Str("")>>, <<Str("v")>>, <<NullV>>, <<Str("w"), Str("v")>>,
                   <<Str("w"), Str("")>>}
        bare == {[id |-> 1, name |-> "Check"]} \cup {[id |-> 1, name |-> "Check", input |-> inp] :
                                                      inp \in inputs}
    IN  bare \cup {Set(n, "args", [x |-> v]) : n \in bare, v \in Values}

InitCheck ==
    /\ check \in {[data |-> n, conf |-> c] : n \in CheckNodes, c \in CheckConfs}
    /\ files = <<>>
    /\ model = Null
    /\ tree = Null
    /\ twin = Null
    /\ edit = <<>>
    /\ saved = Null
    /\ parsingStack = <<>>
    /\ messages = <<>>
    /\ trace = <<>>
    /\ ret = 0
    /\ phase = "idle"

\* checkTreeData's call: checkNodeArg(data, conf, i, false) for the one argument.
CheckNodeArg ==
    /\ phase = "idle"
    /\ ret' = checkNodeArg(check.data, check.conf, 1, FALSE).ok
    /\ phase' = "checked"
    /\ UNCHANGED <<files, model, tree, twin, edit, saved, parsingStack, messages, trace,
                   check>>

NextCheck == CheckNodeArg

SpecCheck == InitCheck /\ [][NextCheck]_vars

-----------------------------------------------------------------------------
(* The tree validator checkNodeData.  Slot values and argument values are   *)
(* tagged JavaScript values; an absent slot array reads like an empty one.  *)

\* `!v` for the values a slot can hold
Falsy(v) == v \in {Undef, NullV, Str(""), Num(0), Bool(FALSE)}

\* str.endsWith(suffix)
EndsWith(str, suffix) ==
    Len(suffix) <= Len(str) /\ SubSeq(str, Len(str) - Len(suffix) + 1, Len(str)) = suffix

Dots == <<".", ".", ".">>

\* isValidInputOrOutput(inputDef, inputData, index), index counted from 0
isValidInputOrOutput(inputDef, inputData, index) ==
    \/ Includes(inputDef[index + 1], <<"?">>)
    \/ (index < Len(inputData) /\ ~Falsy(inputData[index + 1]))
    \/ (index = Len(inputDef) - 1 /\ EndsWith(inputDef[index + 1], Dots))

\* The loop over conf.input (conf.output): slots filled with "", one error()
\* per required slot left empty, and whether the last descriptor is variadic.
RECURSIVE FillSlots(_, _, _)
FillSlots(def, slots, i) ==
    IF i >= Len(def) THEN [slots |-> slots, errs |-> 0, variadic |-> FALSE]
    ELSE LET filled == IF i >= Len(slots) THEN Append(slots, Str(""))
                       ELSE IF Falsy(slots[i + 1]) THEN [slots EXCEPT ![i + 1] = Str("")]
                       ELSE slots
             rest == FillSlots(def, filled, i + 1)
         IN  [slots |-> rest.slots,
              errs |-> (IF isValidInputOrOutput(def, filled, i) THEN 0 ELSE 1) + rest.errs,
              variadic |-> rest.variadic
                               \/ (i = Len(def) - 1 /\ EndsWith(def[Len(def)], Dots))]

\* The input (output) part of checkNodeData for key k, truncation included.
CheckSlots(conf, data, k) ==
    LET before == IF Has(data, k) THEN data[k] ELSE <<>>
        f == IF Has(conf, k) THEN FillSlots(conf[k], before, 0)
             ELSE [slots |-> before, errs |-> 0, variadic |-> FALSE]
        present == Has(data, k) \/ (Has(conf, k) /\ Len(conf[k]) > 0)
        n == IF Has(conf, k) THEN Len(conf[k]) ELSE 0
    IN  [data |-> IF ~present THEN data
                  ELSE IF f.variadic THEN Set(data, k, f.slots)
                  ELSE Set(data, k, SubSeq(f.slots, 1, n)),
         errs |-> f.errs]

\* The loop over conf.args: the errors of checkNodeArg(data, conf, i, true).
RECURSIVE CheckArgs(_, _, _)
CheckArgs(data, conf, i) ==
    IF i > Len(conf.args) THEN [ok |-> TRUE, errs |-> 0]
    ELSE LET one == checkNodeArg(data, conf, i, TRUE)
             rest == CheckArgs(data, conf, i + 1)
         IN  [ok |-> one.ok /\ rest.ok, errs |-> one.errs + rest.errs]

\* const args = {}; args[key] = value for the declared keys with a value
KeptArgs(data, conf) ==
    LET keys == {conf.args[i].name : i \in 1..Len(conf.args)}
    IN  [key \in {x \in keys : ArgOf(data, x) # Undef} |-> data.args[key]]

\* conf.children !== undefined && conf.children !== -1 && conf.children !== count
ChildrenMismatch(data, conf) ==
    Has(conf, "children") /\ conf.children # -1 /\ conf.children # Len(Kids(data))

\* checkNodeData on one node of known type, up to the loop over its children.
CheckOwn(data, conf) ==
    LET count == IF ChildrenMismatch(data, conf) THEN 1 ELSE 0
        i == CheckSlots(conf, data, "input")
        o == CheckSlots(conf, i.data, "output")
        a == IF Has(conf, "args") THEN CheckArgs(o.data, conf, 1) ELSE [ok |-> TRUE, errs |-> 0]
    IN  [ok |-> count = 0 /\ i.errs = 0 /\ o.errs = 0 /\ a.ok,
         data |-> IF Has(conf, "args") THEN Set(o.data, "args", KeptArgs(o.data, conf))
                  ELSE o.data,
         errs |-> count + i.errs + o.errs + a.errs]

Repeat(x, n) == [j \in 1..n |-> x]

RECURSIVE checkNodeData(_)
RECURSIVE CheckChildren(_, _)

\* for (const child of data.children) if (!checkNodeData(child)) hasError = true
CheckChildren(children, i) ==
    IF i > Len(children)
    THEN [ok |-> TRUE, children |-> <<>>, errs |-> <<>>, visited |-> <<>>]
    ELSE LET one == checkNodeData(children[i])
             rest == CheckChildren(children, i + 1)
         IN  [ok |-> one.ok /\ rest.ok,
              children |-> <<one.data>> \o rest.children,
              errs |-> one.errs \o rest.errs,
              visited |-> one.visited \o rest.visited]

\* checkNodeData(data): the returned boolean, the node as the call leaves it,
\* the ids named by the error() calls, and the ids of the nodes it was called on.
checkNodeData(data) ==
    LET conf == getNodeDef(data.name)
    IN  IF conf.name = unknownNodeDef.name
        THEN [ok |-> FALSE, data |-> data, errs |-> <<data.id>>, visited |-> <<data.id>>]
        ELSE LET own == CheckOwn(data, conf)
                 kids == CheckChildren(Kids(data), 1)
             IN  [ok |-> own.ok /\ kids.ok,
                  data |-> Set(own.data, "children", kids.children),
                  errs |-> Repeat(data.id, own.errs) \o kids.errs,
                  visited |-> <<data.id>> \o kids.visited]

\* Nodes to validate: known and unknown types, declared and undeclared
\* argument keys, well and ill typed values, filled and empty slots.
DataLabels ==
    {[name |-> "Sequence"], [name |-> "Foo"],
     [name |-> "Sequence", args |-> [note |-> Str("a")]],
     [name |-> "Log"],
     [name |-> "Log", args |-> [str |-> Str("hello")]],
     [name |-> "Log", args |-> [str |-> Str("hello"), level |-> Num(2)]],
     [name |-> "Log", args |-> [str |-> Num(3)]],
     [name |-> "Wait", args |-> [time |-> Num(2)]],
     [name |-> "Check"],
     [name |-> "Check", args |-> [value |-> Str("v")], input |-> <<Str("t")>>,
      output |-> <<Str("r")>>],
     [name |-> "Check", input |-> <<Str("t"), Str("u")>>, output |-> <<NullV>>]}

DataModels == ModelsUpTo(MaxDataNodes, DataLabels, DataLabels)

InitData ==
    /\ model \in DataModels
    /\ files = <<>>
    /\ tree = Null
    /\ twin = Null
    /\ edit = <<>>
    /\ saved = Null
    /\ parsingStack = <<>>
    /\ messages = <<>>
    /\ trace = <<>>
    /\ ret = 0
    /\ check = Null
    /\ phase = "idle"

\* checkNodeData(model): check holds the tree as the call leaves it and the
\* diagnostics, ret the returned boolean.
CheckNodeData ==
    /\ phase = "idle"
    /\ LET r == checkNodeData(model)
       IN  /\ check' = [data |-> r.data, errs |-> r.errs, visited |-> r.visited]
           /\ ret' = r.ok
    /\ phase' = "validated"
    /\ UNCHANGED <<files, model, tree, twin, edit, saved, parsingStack, messages, trace>>

NextData == CheckNodeData

SpecData == InitData /\ [][NextData]_vars

-----------------------------------------------------------------------------
(* Claims about the id and status assigner.                                 *)

Ids(t) == {NodeAt(t, p).id : p \in Positions(t)}

\* C1: after refreshTreeDataId on the root of a tree of N nodes the ids are
\* exactly "1".."N", pairwise distinct, the root is "1", ids follow the
\* depth-first parent-before-children order, and the call returns N + 1.
C1_SequentialIds ==
    phase = "refreshed" =>
        LET N == Size(tree)
            P == Positions(tree)
        IN  /\ Ids(tree) = {ToString(k) : k \in 1..N}
            /\ \A p, q \in P : p # q => NodeAt(tree, p).id # NodeAt(tree, q).id
            /\ tree.id = "1"
            /\ \A p, q \in P :
                    PreBefore(p, q) => IdNum(NodeAt(tree, p).id) < IdNum(NodeAt(tree, q).id)
            /\ ret = N + 1

\* A root whose first child has a child of its own, and a second child.
C1_Witness ==
    /\ phase = "refreshed"
    /\ Size(tree) = 4
    /\ Len(Kids(tree)) = 2
    /\ Len(Kids(tree.children[1])) = 1
    /\ tree.children[1].children[1].id = "3"
    /\ tree.children[2].id = "4"
    /\ ret = 5

Enabled(n) == ~Truthy(n, "disabled")

Declares(n, directive) ==
    Has(n.def, "status") /\ \E i \in 1..Len(n.def.status) : n.def.status[i] = directive

AndRule(n, directive, bit) ==
    (Declares(n, directive) /\ BitAt(n.status, bit) = 1) =>
        \A i \in 1..Len(Kids(n)) :
            Enabled(n.children[i]) => BitAt(n.children[i].status, bit) = 1

\* C2 as claimed: a node declaring "&success" (resp. "&failure") has its
\* SUCCESS (resp. FAILURE) bit set only if every non-disabled child's status
\* has that bit.
C2_AndOverEnabledChildren ==
    phase = "refreshed" =>
        \A p \in Positions(tree) :
            /\ AndRule(NodeAt(tree, p), "&success", SUCCESS)
            /\ AndRule(NodeAt(tree, p), "&failure", FAILURE)

\* No directive after a `directive` of the list is one of `writers`.
LastWriter(n, directive, writers) ==
    \A i, j \in 1..Len(n.def.status) :
        (n.def.status[i] = directive /\ i < j) => n.def.status[j] \notin writers

AndRuleOverCounted(n, directive, bit, writers) ==
    (Declares(n, directive) /\ LastWriter(n, directive, writers)
         /\ BitAt(n.status, bit) = 1) =>
        \A i \in 1..Len(Kids(n)) :
            (Enabled(n.children[i]) /\ n.children[i].status # 0) =>
                BitAt(n.children[i].status, bit) = 1

\* C2 (amended): a node declaring "&success" (resp. "&failure"), with no
\* later "|" or "!" directive for the same bit, has its SUCCESS (resp.
\* FAILURE) bit set only if every non-disabled child whose status is not 0
\* has that bit; a node declaring ["&success", "|failure", "|running"] has
\* FAILURE set iff some non-disabled child can fail.
C2_AndOverCountedChildren ==
    phase = "refreshed" =>
        \A p \in Positions(tree) :
            LET n == NodeAt(tree, p)
            IN  /\ AndRuleOverCounted(n, "&success", SUCCESS, {"|success", "!success"})
                /\ AndRuleOverCounted(n, "&failure", FAILURE, {"|failure", "!failure"})
                /\ (n.name = "AllSuccess" /\ Has(n, "children")) =>
                       (BitAt(n.status, FAILURE) = 1
                            <=> \E i \in 1..Len(n.children) :
                                    /\ Enabled(n.children[i])
                                    /\ BitAt(n.children[i].status, FAILURE) = 1)

\* ["&success", "|failure", "|running"] over an enabled child that can only
\* succeed and an enabled child that can only fail: SUCCESS clear, FAILURE set.
C2_Witness ==
    /\ phase = "refreshed"
    /\ tree.name = "AllSuccess"
    /\ Len(Kids(tree)) = 2
    /\ Enabled(tree.children[1]) /\ Enabled(tree.children[2])
    /\ tree.children[1].status = Shl(1, SUCCESS)
    /\ tree.children[2].status = Shl(1, FAILURE)
    /\ BitAt(tree.status, SUCCESS) = 0
    /\ BitAt(tree.status, FAILURE) = 1

RECURSIVE OrOfEnabled(_, _)
OrOfEnabled(children, i) ==
    IF i > Len(children) THEN 0
    ELSE BitOr(IF Enabled(children[i]) THEN children[i].status ELSE 0,
               OrOfEnabled(children, i + 1))

NoRules(n) == ~Has(n.def, "status") \/ Len(n.def.status) = 0

\* C3: a node with children and no composition rules has exactly the bitwise
\* OR of the statuses of its non-disabled children as its status.
C3_PlainOrOfChildren ==
    phase = "refreshed" =>
        \A p \in Positions(tree) :
            LET n == NodeAt(tree, p)
            IN  (Has(n, "children") /\ Len(n.children) > 0 /\ NoRules(n)) =>
                    n.status = OrOfEnabled(n.children, 1)

\* C4: two trees identical except for the content of a disabled child get
\* the same status at that child's parent and at every ancestor of it.
C4_DisabledChildIgnored ==
    phase = "refreshed" =>
        \A q \in Positions(tree) :
            (IsPrefix(q, edit) /\ q # edit) => NodeAt(tree, q).status = NodeAt(twin, q).status

\* The disabled child sits two levels down, beside an enabled sibling, and
\* its own status differs between the two trees.
C4_Witness ==
    /\ phase = "refreshed"
    /\ Len(edit) = 2
    /\ Truthy(NodeAt(tree, edit), "disabled")
    /\ Truthy(NodeAt(twin, edit), "disabled")
    /\ NodeAt(tree, edit).status # NodeAt(twin, edit).status
    /\ NodeAt(tree, edit).status # 0
    /\ NodeAt(tree, <<>>).status # 0

-----------------------------------------------------------------------------
(* Claims about the subtree resolver and the model converter.               *)

Count(s, P(_)) == Cardinality({i \in 1..Len(s) : P(s[i])})

IsCircular(e) == e.kind = "circular"

IsFailed(e) == e.kind = "failed"

UnresolvedReference(d) ==
    Has(d, "path") /\ ~Has(d, "children") /\ ~Has(d, "lastModified")

\* C5: createTreeData terminates, also on files that refer to each other; a
\* node whose path is on the in-progress stack is not descended into, is
\* returned with its path, without children and without lastModified, and
\* one circular-reference diagnostic is emitted for each such node.
C5_CyclesEndResolution ==
    phase = "built" =>
        /\ ret = FALSE
        /\ \A i \in 1..Len(trace) :
              IsCircular(trace[i]) =>
                  /\ InSeq(trace[i].ref.path, trace[i].stack)
                  /\ trace[i].data.path = trace[i].ref.path
                  /\ UnresolvedReference(trace[i].data)
        /\ \A p \in Paths :
              LET About(e) == IsCircular(e) /\ e.path = p
                  Hit(e) == IsCircular(e) /\ e.ref.path = p
              IN  Count(messages, About) = Count(trace, Hit)
        /\ Cardinality({q \in Positions(tree) : UnresolvedReference(NodeAt(tree, q))})
              <= Count(messages, IsCircular)

\* a.json and b.json refer to each other and the opened tree refers to a.json.
C5_Witness ==
    /\ phase = "built"
    /\ Has(model, "path") /\ model.path = "a.json"
    /\ files["a.json"].kind = "tree" /\ files["b.json"].kind = "tree"
    /\ Has(files["a.json"].root, "children")
    /\ Has(files["b.json"].root, "children")
    /\ Has(files["a.json"].root.children[1], "path")
    /\ files["a.json"].root.children[1].path = "b.json"
    /\ Has(files["b.json"].root.children[1], "path")
    /\ files["b.json"].root.children[1].path = "a.json"
    /\ messages = <<[kind |-> "circular", path |-> "a.json"]>>
    /\ UnresolvedReference(tree.children[1].children[1])

OwnFields == {"name", "desc", "args", "input", "output"}

\* C6: when reading, parsing or stat-ing a referenced file fails the build
\* still completes, a diagnostic is emitted, and the offending node is
\* returned without children and without fields of the subtree file.
C6_FailedSubtreeLeftUnexpanded ==
    phase = "built" =>
        /\ ret = FALSE
        /\ Count(messages, IsFailed) = Count(trace, IsFailed)
        /\ \A i \in 1..Len(trace) :
              IsFailed(trace[i]) =>
                  /\ ~Has(trace[i].data, "children")
                  /\ Pick(trace[i].data, OwnFields) = Pick(trace[i].ref, OwnFields)
                  /\ trace[i].data.id = ToString(trace[i].ref.id)

\* C8 as claimed: without full export every emitted node that carries a path
\* is written with that path and no children; with full export the children
\* of every node are written.
C8_NoPathWithChildren ==
    phase = "saved" =>
        /\ ret = FALSE =>
              \A p \in Positions(saved) :
                  Has(NodeAt(tree, p), "path") =>
                      /\ Has(NodeAt(saved, p), "path")
                      /\ NodeAt(saved, p).path = NodeAt(tree, p).path
                      /\ ~Has(NodeAt(saved, p), "children")
        /\ ret = TRUE => Positions(saved) = Positions(tree)

\* C8 (amended): the boundary holds for every path-bearing node whose id is
\* not "1"; a path-bearing node with id "1" is written with its path and
\* with its children; full export writes the children of every node.
C8_SubtreeBoundary ==
    phase = "saved" =>
        /\ ret = FALSE =>
              \A p \in Positions(saved) :
                  LET d == NodeAt(tree, p)
                      n == NodeAt(saved, p)
                  IN  Has(d, "path") =>
                          /\ Has(n, "path") /\ n.path = d.path
                          /\ d.id # "1" => ~Has(n, "children")
                          /\ d.id = "1" => Len(Kids(n)) = Len(Kids(d))
        /\ ret = TRUE => Positions(saved) = Positions(tree)

\* A resolved reference below the root is saved as a bare reference.
C8_Witness ==
    /\ phase = "saved"
    /\ ret = FALSE
    /\ Len(Kids(tree)) > 0
    /\ Has(tree.children[1], "path")
    /\ Has(tree.children[1], "lastModified")
    /\ Len(Kids(tree.children[1])) > 0
    /\ ~Has(saved.children[1], "children")
    /\ saved.children[1].path = tree.children[1].path

RECURSIVE Elide(_, _)
RECURSIVE ElideAll(_, _, _)

ElideAll(children, i, undeclared) ==
    IF i > Len(children) THEN <<>>
    ELSE <<Elide(children[i], undeclared)>> \o ElideAll(children, i + 1, undeclared)

\* m without its empty optional fields (empty desc, false debug / disabled,
\* empty children) and, when `undeclared`, without the args / input / output
\* its definition does not declare.
Elide(m, undeclared) ==
    LET conf == getNodeDef(m.name)
        gone == {k \in {"desc"} : Has(m, k) /\ m[k] = ""}
                \cup {k \in {"debug", "disabled"} : Has(m, k) /\ m[k] = FALSE}
                \cup {k \in {"children"} : Has(m, k) /\ Len(m[k]) = 0}
                \cup {k \in {"args", "input", "output"} :
                          undeclared /\ ~DeclaresSome(conf, k)}
        kept == [k \in DOMAIN m \ gone |-> m[k]]
    IN  IF Has(kept, "children")
        THEN Set(kept, "children", ElideAll(kept.children, 1, undeclared))
        ELSE kept

NoPath(m) == \A p \in Positions(m) : ~Has(NodeAt(m, p), "path")

\* C7 as claimed: createFileData(createTreeData(m)) is m up to the elision
\* of empty optional fields.
C7_RoundTrip ==
    (phase = "saved" /\ ret = FALSE /\ ~Has(tree, "status")) =>
        Elide(saved, FALSE) = Elide(model, FALSE)

\* C7 (amended): for m without path references the round trip gives m up to
\* the elision of empty optional fields and of the args / input / output of
\* nodes whose definition declares none.
C7_RoundTripWithoutReferences ==
    (phase = "saved" /\ ret = FALSE /\ ~Has(tree, "status") /\ NoPath(model)) =>
        Elide(saved, TRUE) = Elide(model, TRUE)

\* A parent with empty optional fields over a child with declared args,
\* input and output, which all come back.
C7_Witness ==
    /\ phase = "saved" /\ ret = FALSE /\ ~Has(tree, "status") /\ NoPath(model)
    /\ Has(model, "desc") /\ model.desc = ""
    /\ Len(Kids(model)) = 1
    /\ model.children[1].name = "Check"
    /\ Has(model.children[1], "args") /\ model.children[1].args = [value |-> "v"]
    /\ saved # model
    /\ saved.children[1] = model.children[1]

-----------------------------------------------------------------------------
(* Claims about the argument validator.                                     *)

TheArg == check.conf.args[1]

TheValue == ArgOf(check.data, "x")

\* The value of the input slot whose descriptor starts with the oneof tag.
LinkedInput == InputAt(check.data, FindInput(check.conf, Tag))

ArgSupplied == TheValue # Undef /\ TheValue # Str("")

InputSupplied == LinkedInput \notin {Undef, NullV, Str("")}

ExactlyOne == (ArgSupplied /\ ~InputSupplied) \/ (~ArgSupplied /\ InputSupplied)

\* C9 as claimed: an argument with a oneof tag passes checkNodeArg iff
\* exactly one of its value and the linked input value is non-empty.
C9_OneofIffExactlyOne ==
    (phase = "checked" /\ Has(TheArg, "oneof")) => (ret = ExactlyOne)

\* The same node checked against the same declaration without its oneof tag.
TypeRuleOk ==
    checkNodeArg(check.data, [check.conf EXCEPT !.args = <<Del(TheArg, "oneof")>>], 1, FALSE).ok

\* C9 (amended): an argument with a oneof tag passes checkNodeArg iff its
\* value passes the argument's own type rule and exactly one of the value
\* and the linked input value is non-empty; both supplied and both missing
\* always fail.
C9_OneofAndTypeRule ==
    (phase = "checked" /\ Has(TheArg, "oneof")) =>
        /\ ret = (TypeRuleOk /\ ExactlyOne)
        /\ (ArgSupplied /\ InputSupplied) => ret = FALSE
        /\ (~ArgSupplied /\ ~InputSupplied) => ret = FALSE

\* An optional int left out while the linked input is given passes; the
\* slot is the second one of the definition.
C9_Witness ==
    /\ phase = "checked"
    /\ Has(TheArg, "oneof")
    /\ TheArg.type = <<"i", "n", "t", "?">>
    /\ FindInput(check.conf, Tag) = 1
    /\ ~ArgSupplied /\ InputSupplied
    /\ ret = TRUE

\* C10: an array-typed argument without oneof passes checkNodeArg iff its
\* value is a non-empty sequence whose every element passes the scalar rule,
\* or the argument is optional and the sequence is absent or empty.
C10_ArrayRule ==
    (phase = "checked" /\ isNodeArgArray(TheArg) /\ ~Has(TheArg, "oneof")) =>
        ret = (\/ /\ TheValue.t = "array"
                  /\ Len(TheValue.elems) > 0
                  /\ \A j \in 1..Len(TheValue.elems) :
                        checkNodeArgValue(check.data, TheArg, TheValue.elems[j], FALSE).ok
               \/ /\ isNodeArgOptional(TheArg)
                  /\ (TheValue = Undef \/ TheValue = Arr(<<>>)))

-----------------------------------------------------------------------------
(* Claims about schema errors and the tree validator.                       *)

KnownKind(type) ==
    \/ isFloatType(type) \/ isIntType(type) \/ isStringType(type) \/ isEnumType(type)
    \/ isExprType(type) \/ isJsonType(type) \/ isBoolType(type)

\* C11: an argument whose declared base kind is none of float, int, string,
\* enum, expr, json, bool is a validation failure: checkNodeArgValue returns
\* false for it for every value, and so does the check of the node's argument.
C11_UnknownKindFails ==
    (phase = "checked" /\ ~KnownKind(getNodeArgRawType(TheArg))) =>
        /\ ~checkNodeArgValue(check.data, TheArg, TheValue, FALSE).ok
        /\ ret = FALSE

Range(q) == {q[j] : j \in 1..Len(q)}

IsUnknown(n) == getNodeDef(n.name).name = unknownNodeDef.name

\* The number of violations of node n itself, whatever surrounds it.
OwnErrs(n) == IF IsUnknown(n) THEN 1 ELSE CheckOwn(n, getNodeDef(n.name)).errs

\* C12: checkNodeData never stops early: every node of the tree is visited and
\* validated whatever was found at its ancestors and earlier siblings, a
\* diagnostic is emitted for every node with a violation (the children of a
\* node of unknown type included), and a tree with a node of unknown type
\* gives false.
C12_NeverStopsEarly ==
    phase = "validated" =>
        /\ \A p \in Positions(model) :
              /\ NodeAt(model, p).id \in Range(check.visited)
              /\ OwnErrs(NodeAt(model, p)) > 0 => NodeAt(model, p).id \in Range(check.errs)
        /\ (\E p \in Positions(model) : IsUnknown(NodeAt(model, p))) => ret = FALSE

DeclaredArgs(n) ==
    LET conf == getNodeDef(n.name)
    IN  IF Has(conf, "args") THEN {conf.args[i].name : i \in 1..Len(conf.args)} ELSE {}

\* C13: after checkNodeData on a tree whose nodes all have known types, every
\* node's args holds only keys declared in its schema's args list, and every
\* declared key that had a defined value still has that value.
C13_ArgsNormalized ==
    (phase = "validated" /\ \A p \in Positions(model) : ~IsUnknown(NodeAt(model, p))) =>
        \A p \in Positions(model) :
            LET before == NodeAt(model, p)
                after == NodeAt(check.data, p)
            IN  /\ Has(after, "args") => DOMAIN after.args \subseteq DeclaredArgs(before)
                /\ \A k \in DeclaredArgs(before) :
                       ArgOf(before, k) # Undef => ArgOf(after, k) = ArgOf(before, k)

-----------------------------------------------------------------------------
(* Claims about the identity of references and about the path stack.        *)

SameField(a, b, k) == (Has(a, k) <=> Has(b, k)) /\ (Has(a, k) => a[k] = b[k])

\* The graph node g carries the identity fields of the referencing node n.
KeepsIdentity(g, n) ==
    /\ g.id = ToString(n.id)
    /\ \A k \in {"path", "debug", "disabled"} : SameField(g, n, k)

IsReference(n) == Has(n, "path") /\ n.path # "" /\ ~Has(n, "children")

\* C14: for every path-bearing node without inline children, the graph node
\* createTreeData returns has the id, path, debug, disabled and parent of the
\* referencing node, when the subtree is resolved and when resolution is
\* abandoned (circular reference, read or parse failure).
C14_ReferenceIdentityKept ==
    phase = "built" =>
        /\ \A p \in Positions(model) :
               IsReference(NodeAt(model, p)) =>
                   /\ KeepsIdentity(NodeAt(tree, p), NodeAt(model, p))
                   /\ IF p = <<>> THEN ~Has(tree, "parent")
                      ELSE /\ Has(NodeAt(tree, p), "parent")
                           /\ NodeAt(tree, p).parent
                                  = ToString(NodeAt(model, SubSeq(p, 1, Len(p) - 1)).id)
        /\ \A j \in 1..Len(trace) : KeepsIdentity(trace[j].data, trace[j].ref)

\* C15: the shared path stack never leaks between builds: it is empty when a
\* top-level createTreeData call has returned, whether subtrees resolved,
\* failed or were circular, and so also when the next one starts; in any
\* sequence of builds over unchanged files the result of a build (graph and
\* diagnostics) is the result it has as the only build performed.
C15_StackNeverLeaks ==
    /\ parsingStack = <<>>
    /\ phase = "built" =>
           LET alone == createTreeData(model, "", NoBuild, 1)
           IN  /\ tree = alone.data
               /\ messages = alone.st.msgs

\* A second build has returned, after a build that met a circular reference
\* and a failed subtree, and itself met a circular reference.
C15_Witness ==
    /\ phase = "built"
    /\ twin # Null
    /\ twin # tree
    /\ \E j \in 1..Len(messages) : messages[j].kind = "circular"
    /\ \E q \in Paths : files[q].kind \in {"missing", "corrupt", "unstatable"}
    /\ parsingStack = <<>>
====
